---- MODULE Spec2Model ----
(***************************************************************************)
(* A model of src/src/Code.ts (gas-sheet-mayday): the Apps Script that     *)
(* polls a TV-guide search API, merges the result into a spreadsheet and   *)
(* notifies about unrecorded programs.                                     *)
(*                                                                         *)
(* JavaScript strings are sequences of one-character strings, so that the  *)
(* regular expressions of normalizeTitle and the key order of Object.keys  *)
(* can be computed.  The boolean column "recorded" holds a JavaScript      *)
(* value, written "true", "false" or "undefined".                          *)
(***************************************************************************)
EXTENDS Integers, Sequences, FiniteSets, TLC

\* ------------------------------------------------------------------ bounds

\* Longest list of rows read from the sheet (updateSheet, currentTvPrograms).
MaxCurrent == 2

\* Longest list of programs handed to the merge (fetchedTvPrograms).
MaxFetched == 2

\* Most records in one page of a search result.
MaxCount == 2

\* Largest maxPage fetchTvPrograms is called with when checked on its own.
MaxPages == 2

\* Most rows the sheet holds before the first run.
MaxStored == 1

\* Most programs the search API holds during a run.
MaxCatalog == 3

\* Records per page the search API answers with during a run.
ServerPageSize == 1

\* Invocations of execute (time-driven triggers, manual runs).
NumInvocations == 2

\* Longest title normalizeTitle is checked with.
MaxTitle == 4

\* ----------------------------------------------------------------- strings

Str_empty == <<>>
Str_A == <<"A">>
Str_B == <<"B">>
Str_7 == <<"7">>
Str_constructor == <<"c", "o", "n", "s", "t", "r", "u", "c", "t", "o", "r">>
Str_toString == <<"t", "o", "S", "t", "r", "i", "n", "g">>
Str_valueOf == <<"v", "a", "l", "u", "e", "O", "f">>
Str_proto == <<"_", "_", "p", "r", "o", "t", "o", "_", "_">>
Str_title == <<"t", "i", "t", "l", "e">>
Str_startDateTime == <<"s", "t", "a", "r", "t", "D", "a", "t", "e", "T", "i", "m", "e">>
Str_recorded == <<"r", "e", "c", "o", "r", "d", "e", "d">>
Str_url == <<"u", "r", "l">>

JsTrue == "true"
JsFalse == "false"
JsUndefined == "undefined"

Digits == {"0", "1", "2", "3", "4", "5", "6", "7", "8", "9"}

DigitValue(c) ==
    CASE c = "0" -> 0 [] c = "1" -> 1 [] c = "2" -> 2 [] c = "3" -> 3
      [] c = "4" -> 4 [] c = "5" -> 5 [] c = "6" -> 6 [] c = "7" -> 7
      [] c = "8" -> 8 [] c = "9" -> 9

\* The order of two canonical decimal strings as numbers: the shorter is the
\* smaller, and two of one length compare digit by digit.
RECURSIVE DecimalLeq(_, _)
DecimalLeq(a, b) ==
    IF Len(a) # Len(b) THEN Len(a) < Len(b)
    ELSE IF a = <<>> THEN TRUE
    ELSE IF Head(a) # Head(b) THEN DigitValue(Head(a)) < DigitValue(Head(b))
    ELSE DecimalLeq(Tail(a), Tail(b))

\* 2^32 - 2, the largest array index.
MaxArrayIndex == <<"4", "2", "9", "4", "9", "6", "7", "2", "9", "4">>

\* An own property key that Object.keys lists first, in ascending numeric
\* order: the canonical decimal form of an integer in 0 .. 2^32 - 2.
IsArrayIndex(s) ==
    /\ Len(s) >= 1
    /\ \A i \in 1..Len(s) : s[i] \in Digits
    /\ (Len(s) > 1 => s[1] # "0")
    /\ DecimalLeq(s, MaxArrayIndex)

RECURSIVE Reverse(_)
Reverse(s) ==
    IF s = <<>> THEN <<>> ELSE Append(Reverse(Tail(s)), Head(s))

\* ------------------------------------------------- normalizeTitle (262-267)

\* \s of a regular expression, and the characters trim() removes.
IsSpace(c) == c \in {" ", "\t", "\n"}

\* The characters "." does not match.
IsLineTerminator(c) == c = "\n"

\* The number of white-space characters of s from position i on (\s*, greedy).
RECURSIVE SpaceRun(_, _)
SpaceRun(s, i) ==
    IF i <= Len(s) /\ IsSpace(s[i]) THEN 1 + SpaceRun(s, i + 1) ELSE 0

\* The position of the first marker at or after i that ".*?" can reach
\* without crossing a line terminator; 0 when there is none.
RECURSIVE NextMarker(_, _)
NextMarker(s, i) ==
    IF i > Len(s) THEN 0
    ELSE IF s[i] = "●" THEN i
    ELSE IF IsLineTerminator(s[i]) THEN 0
    ELSE NextMarker(s, i + 1)

\* .replace(/^\s*●.*?●\s*/, "")
StripMarkerPrefix(s) ==
    LET open == SpaceRun(s, 1) + 1
        close == IF open <= Len(s) /\ s[open] = "●" THEN NextMarker(s, open + 1) ELSE 0
    IN IF close = 0 THEN s
       ELSE SubSeq(s, close + 1 + SpaceRun(s, close + 1), Len(s))

\* The position of the "]" that closes a "[" at position i - 1, when only
\* characters other than brackets lie between; 0 when there is none.
RECURSIVE ClosingBracket(_, _)
ClosingBracket(s, i) ==
    IF i > Len(s) THEN 0
    ELSE IF s[i] = "]" THEN i
    ELSE IF s[i] = "[" THEN 0
    ELSE ClosingBracket(s, i + 1)

\* The position after a match of /\s*\[[^\[\]]*]\s*/ that starts at i; 0 when
\* the expression does not match there.
BracketMatchEnd(s, i) ==
    LET open == i + SpaceRun(s, i)
        close == IF open <= Len(s) /\ s[open] = "[" THEN ClosingBracket(s, open + 1) ELSE 0
    IN IF close = 0 THEN 0 ELSE close + 1 + SpaceRun(s, close + 1)

\* .replace(/\s*\[[^\[\]]*]\s*/g, ""): the matches are found from left to
\* right, each search starting where the last match ended.
RECURSIVE StripBracketsFrom(_, _)
StripBracketsFrom(s, i) ==
    IF i > Len(s) THEN <<>>
    ELSE LET e == BracketMatchEnd(s, i)
         IN IF e = 0 THEN <<s[i]>> \o StripBracketsFrom(s, i + 1)
            ELSE StripBracketsFrom(s, e)

StripBrackets(s) == StripBracketsFrom(s, 1)

RECURSIVE TrimEnd(_)
TrimEnd(s) ==
    IF s # <<>> /\ IsSpace(s[Len(s)]) THEN TrimEnd(SubSeq(s, 1, Len(s) - 1)) ELSE s

\* .trim()
Trim(s) == TrimEnd(SubSeq(s, 1 + SpaceRun(s, 1), Len(s)))

normalizeTitle(title) == Trim(StripBrackets(StripMarkerPrefix(title)))

\* ------------------------------------------- the object used as a map ({})

\* Object.prototype, the prototype of the literal {} of line 77.
ObjectPrototype == [builtin |-> "Object.prototype"]

\* The properties a {} inherits from Object.prototype whose value is a
\* function (truthy, and without a property "recorded").
ObjectPrototypeKeys == {Str_constructor, Str_toString, Str_valueOf}

TvProgramKeys == {Str_title, Str_startDateTime, Str_recorded, Str_url}

\* const map: { [title: string]: TvProgram } = {};
EmptyObject == [order |-> <<>>, own |-> <<>>, proto |-> ObjectPrototype]

IsTvProgram(v) == DOMAIN v = {"title", "startDateTime", "recorded", "url"}

\* The field of a TvProgram named by a key, as a JavaScript value.
FieldValue(p, k) ==
    CASE k = Str_title -> [type |-> "string", str |-> p.title]
      [] k = Str_startDateTime -> [type |-> "other", truthy |-> TRUE]
      [] k = Str_recorded -> [type |-> "primitive", prim |-> p.recorded]
      [] k = Str_url -> [type |-> "other", truthy |-> TRUE]

\* map[k] read: own property, then the prototype chain.
GetProperty(o, k) ==
    IF k = Str_proto THEN [type |-> "object", obj |-> o.proto]
    ELSE IF k \in DOMAIN o.own THEN [type |-> "object", obj |-> o.own[k]]
    ELSE IF IsTvProgram(o.proto) /\ k \in TvProgramKeys THEN FieldValue(o.proto, k)
    ELSE IF k \in ObjectPrototypeKeys THEN [type |-> "function"]
    ELSE [type |-> "undefined"]

\* if (tvp)
ToBoolean(v) ==
    CASE v.type = "object" -> TRUE
      [] v.type = "function" -> TRUE
      [] v.type = "string" -> v.str # <<>>
      [] v.type = "primitive" -> v.prim = JsTrue
      [] v.type = "other" -> v.truthy
      [] v.type = "undefined" -> FALSE

\* tvp.recorded
RecordedOf(v) ==
    IF v.type = "object" /\ IsTvProgram(v.obj) THEN v.obj.recorded
    ELSE JsUndefined

\* SetProperty as a list would do it: every write adds a key, also one that
\* is there already.
SetPropertyAppending(o, k, p) ==
    IF k = Str_proto THEN [o EXCEPT !.proto = p]
    ELSE [o EXCEPT !.order = Append(o.order, k), !.own = (k :> p) @@ o.own]

\* map[k] = p: "__proto__" replaces the prototype; an own key keeps its
\* place; a new key is appended.
SetProperty(o, k, p) ==
    IF k = Str_proto THEN [o EXCEPT !.proto = p]
    ELSE IF k \in DOMAIN o.own THEN [o EXCEPT !.own = (k :> p) @@ o.own]
    ELSE [o EXCEPT !.order = Append(o.order, k), !.own = (k :> p) @@ o.own]

RECURSIVE SortedIndices(_)
SortedIndices(S) ==
    IF S = {} THEN <<>>
    ELSE LET m == CHOOSE x \in S : \A y \in S : DecimalLeq(x, y)
         IN <<m>> \o SortedIndices(S \ {m})

\* Object.keys as the creation order of the keys alone.
ObjectKeysByCreation(o) == o.order

\* Object.keys(o): the array-index keys in ascending order, then the other
\* own keys in the order of their creation.
ObjectKeys(o) ==
    SortedIndices({k \in DOMAIN o.own : IsArrayIndex(k)})
        \o SelectSeq(o.order, LAMBDA k : ~IsArrayIndex(k))

objectValues(o) ==
    LET keys == ObjectKeys(o) IN [i \in 1..Len(keys) |-> o.own[keys[i]]]

\* ------------------------------------------------------ the merge (76-96)

\* The first loop without its guard: currentTvPrograms.forEach(it => {
\* map[it.title] = it; })
RECURSIVE SetCurrentUnguarded(_, _)
SetCurrentUnguarded(map, current) ==
    IF current = <<>> THEN map
    ELSE SetCurrentUnguarded(SetProperty(map, Head(current).title, Head(current)),
                             Tail(current))

\* currentTvPrograms.forEach(it => { if (it.title) { map[it.title] = it; } })
RECURSIVE SetCurrent(_, _)
SetCurrent(map, current) ==
    IF current = <<>> THEN map
    ELSE LET it == Head(current)
         IN SetCurrent(IF it.title # <<>> THEN SetProperty(map, it.title, it) ELSE map,
                       Tail(current))

\* Lines 89-92: the fetched program after "it.recorded = tvp.recorded".
CarryRecorded(map, it) ==
    LET tvp == GetProperty(map, it.title)
    IN IF ToBoolean(tvp) THEN [it EXCEPT !.recorded = RecordedOf(tvp)] ELSE it

\* fetchedTvPrograms.reverse().forEach(...) over the reversed list: the map
\* after line 93 of every round.
RECURSIVE SetFetched(_, _)
SetFetched(map, reversed) ==
    IF reversed = <<>> THEN map
    ELSE LET it == CarryRecorded(map, Head(reversed))
         IN SetFetched(SetProperty(map, it.title, it), Tail(reversed))

\* The same loop: the reversed array itself, whose elements line 91 changes.
RECURSIVE CarriedFetched(_, _)
CarriedFetched(map, reversed) ==
    IF reversed = <<>> THEN <<>>
    ELSE LET it == CarryRecorded(map, Head(reversed))
         IN <<it>> \o CarriedFetched(SetProperty(map, it.title, it), Tail(reversed))

\* The map of updateSheet after both loops.
MergedMap(current, fetched) ==
    SetFetched(SetCurrent(EmptyObject, current), Reverse(fetched))

\* objectValues(map): the programs that become newValues (line 96).
MergedTvPrograms(current, fetched) == objectValues(MergedMap(current, fetched))

\* fetchedTvPrograms after line 94: reversed in place, flags carried over.
FetchedAfterMerge(current, fetched) ==
    CarriedFetched(SetCurrent(EmptyObject, current), Reverse(fetched))

\* ------------------------------------------------------------- the data

Procs == 1..NumInvocations

\* "https://tvguide.myjcom.jp/detail/?eid=" + it.cid (line 176)
DetailUrl == "https://tvguide.myjcom.jp/detail/?eid="
UrlOf(cid) == <<DetailUrl, cid>>

\* const UNTIL_DATE = 5; times are counted in days.
UNTIL_DATE == 5

\* new Date() of line 140, and RelativeDate.TODAY of line 135: the day of the
\* run is day 0, and every startDateTime is a number of days from it.
Now == 0
Today == 0

\* fetchTvPrograms(keyword, "546_65406", 3) of line 74
FetchMaxPage == 3

\* headValues[0] (line 98): a row of four texts, here in English.
HeadRow == [head |-> <<"Title", "Broadcast time", "Recorded", "URL">>]

\* A row of empty cells, as getValues() gives for the unused rows of "A2:D".
BlankRow == [title |-> <<>>, startDateTime |-> Now, recorded |-> JsFalse, url |-> <<>>]

TvProgram(title, startDateTime, recorded, url) ==
    [title |-> title, startDateTime |-> startDateTime, recorded |-> recorded, url |-> url]

\* All sequences over S of length at most n.
SeqsUpTo(S, n) == UNION {[1..k -> S] : k \in 0..n}

\* body.value[i] of a SearchResult: the fields the script reads.  start_date
\* stands for start_date.date, by the day toDate() and formatDate() give.
RawRecords ==
    { [cid |-> 1, title |-> <<"●", "N", "●", " ", "A", " ", "[", "x", "]">>, start_date |-> 3],
      [cid |-> 2, title |-> <<"B">>, start_date |-> 7] }

\* The totals ("@odata.count") a response may carry.
TotalCounts == {-1, 0, 1, 2, 3, 4}

\* Every response of fetchSearchResult: any total with any page.
AnySearchResults ==
    {[count |-> t, value |-> v] : t \in TotalCounts, v \in SeqsUpTo(RawRecords, MaxCount)}

\* What the search API may hold during one run.
Catalogs == SeqsUpTo(RawRecords, MaxCatalog)

\* The response of a search API that holds list c, asked from offset o.
CatalogPage(c, o) ==
    [count |-> Len(c),
     value |-> SubSeq(c, o + 1, IF o + ServerPageSize < Len(c) THEN o + ServerPageSize ELSE Len(c))]

\* A script property: unset, or set to some text.
PropertyValues == {"null", "set"}

\* PropertiesService.getScriptProperties(): the two properties the script reads.
ScriptProperties == [RECIPIENT_EMAIL : PropertyValues, SLACK_WEB_HOOK_URL : PropertyValues]

\* The properties of a script for which none was set.
NoProperties == [RECIPIENT_EMAIL |-> "null", SLACK_WEB_HOOK_URL |-> "null"]

\* ------------------------------------------------------------ the state

VARIABLES
    scriptLock,         \* LockService.getScriptLock(): the invocations holding it
    sheet,              \* the rows of sheet "main", row 1 first
    hiddenRows,         \* the row numbers the sheet's filter hides
    catalog,            \* what the search API holds during the current run
    properties,         \* the script properties the notifications find
    sheetAtStart,       \* the rows of the sheet when the current run began
    pc,                 \* where each invocation of execute stands
    threw,              \* whether an invocation is unwinding an exception
    currentTvPrograms,  \* updateSheet: line 66
    maxPage,            \* fetchTvPrograms: its parameter maxPage
    page,               \* fetchTvPrograms: line 158
    offsetCount,        \* fetchTvPrograms: line 159
    tvPrograms,         \* fetchTvPrograms: line 156
    requests,           \* the offsets fetchSearchResult was called with, in order
    responses,          \* the search results it returned, in order
    fetchedTvPrograms,  \* updateSheet: line 74
    newValues,          \* updateSheet: line 96
    unrecordedValues,   \* updateSheet: line 142
    recipient,          \* notifyToGmail: line 209 ("null" or "set")
    url,                \* notifyToSlack: line 231 ("null" or "set")
    mails,              \* calls of MailApp.sendEmail by each invocation
    posts               \* posts to the Slack webhook by each invocation

shared == <<scriptLock, sheet, hiddenRows, catalog, properties, sheetAtStart>>
fetchLocals == <<maxPage, page, offsetCount, tvPrograms, requests, responses>>
sheetLocals == <<currentTvPrograms, fetchedTvPrograms, newValues, unrecordedValues>>
notifyLocals == <<recipient, url, mails, posts>>
vars == <<shared, pc, threw, fetchLocals, sheetLocals, notifyLocals>>

\* ------------------------------------------------------ execute (50-60)

\* A tryLock whose result is not looked at.
TryLockAlways == TRUE

\* scriptLock.tryLock(1): the lock is taken if no invocation holds it.
TryLockSucceeds == scriptLock = {}

\* execute with waitLock(1) in place of tryLock(1): it throws when the lock
\* is not acquired.
ExecuteWaitLock(self) ==
    /\ pc[self] = "execute"
    /\ IF TryLockSucceeds
         THEN /\ scriptLock' = scriptLock \cup {self}
              /\ sheetAtStart' = sheet
              /\ pc' = [pc EXCEPT ![self] = "read"]
         ELSE /\ pc' = [pc EXCEPT ![self] = "failed"]
              /\ UNCHANGED <<scriptLock, sheetAtStart>>
    /\ UNCHANGED <<sheet, hiddenRows, catalog, properties, threw, fetchLocals, sheetLocals,
                   notifyLocals>>

\* Lines 51-53 and, when the lock is not acquired, the return of line 60.
\* The run that begins finds the sheet as it is now.
Execute(self) ==
    /\ pc[self] = "execute"
    /\ IF TryLockSucceeds
         THEN /\ scriptLock' = scriptLock \cup {self}
              /\ sheetAtStart' = sheet
              /\ pc' = [pc EXCEPT ![self] = "read"]
         ELSE /\ pc' = [pc EXCEPT ![self] = "skipped"]
              /\ UNCHANGED <<scriptLock, sheetAtStart>>
    /\ UNCHANGED <<sheet, hiddenRows, catalog, properties, threw, fetchLocals, sheetLocals,
                   notifyLocals>>

\* The steps of updateSheet, between tryLock and releaseLock.
UpdateSheetSteps ==
    {"read", "fetch", "merge", "clear", "header", "values", "format", "filter",
     "gmail", "slack"}

\* The steps that call a service (spreadsheet, URL fetch, properties, mail),
\* any of which can throw.
ServiceSteps ==
    {"read", "fetch", "clear", "header", "values", "format", "filter", "gmail", "slack"}

\* An exception in updateSheet: control passes to the finally block.
Throw(self) ==
    /\ pc[self] \in ServiceSteps
    /\ pc' = [pc EXCEPT ![self] = "release"]
    /\ threw' = [threw EXCEPT ![self] = TRUE]
    /\ UNCHANGED <<shared, fetchLocals, sheetLocals, notifyLocals>>

\* releaseLock() after updateSheet() without try/finally: an exception
\* passes it by and the invocation ends holding the lock.
ReleaseLockOnSuccess(self) ==
    /\ pc[self] = "release"
    /\ scriptLock' = IF threw[self] THEN scriptLock ELSE scriptLock \ {self}
    /\ pc' = [pc EXCEPT ![self] = IF threw[self] THEN "failed" ELSE "done"]
    /\ threw' = [threw EXCEPT ![self] = FALSE]
    /\ maxPage' = [maxPage EXCEPT ![self] = 0]
    /\ page' = [page EXCEPT ![self] = 0]
    /\ offsetCount' = [offsetCount EXCEPT ![self] = 0]
    /\ tvPrograms' = [tvPrograms EXCEPT ![self] = <<>>]
    /\ requests' = [requests EXCEPT ![self] = <<>>]
    /\ responses' = [responses EXCEPT ![self] = <<>>]
    /\ currentTvPrograms' = [currentTvPrograms EXCEPT ![self] = <<>>]
    /\ fetchedTvPrograms' = [fetchedTvPrograms EXCEPT ![self] = <<>>]
    /\ newValues' = [newValues EXCEPT ![self] = <<>>]
    /\ unrecordedValues' = [unrecordedValues EXCEPT ![self] = <<>>]
    /\ recipient' = [recipient EXCEPT ![self] = "null"]
    /\ url' = [url EXCEPT ![self] = "null"]
    /\ UNCHANGED <<sheet, hiddenRows, catalog, properties, sheetAtStart, mails, posts>>

\* finally { scriptLock.releaseLock(); }: the invocation ends, normally or
\* with the exception, and its locals are gone.
ReleaseLock(self) ==
    /\ pc[self] = "release"
    /\ scriptLock' = scriptLock \ {self}
    /\ pc' = [pc EXCEPT ![self] = IF threw[self] THEN "failed" ELSE "done"]
    /\ threw' = [threw EXCEPT ![self] = FALSE]
    /\ maxPage' = [maxPage EXCEPT ![self] = 0]
    /\ page' = [page EXCEPT ![self] = 0]
    /\ offsetCount' = [offsetCount EXCEPT ![self] = 0]
    /\ tvPrograms' = [tvPrograms EXCEPT ![self] = <<>>]
    /\ requests' = [requests EXCEPT ![self] = <<>>]
    /\ responses' = [responses EXCEPT ![self] = <<>>]
    /\ currentTvPrograms' = [currentTvPrograms EXCEPT ![self] = <<>>]
    /\ fetchedTvPrograms' = [fetchedTvPrograms EXCEPT ![self] = <<>>]
    /\ newValues' = [newValues EXCEPT ![self] = <<>>]
    /\ unrecordedValues' = [unrecordedValues EXCEPT ![self] = <<>>]
    /\ recipient' = [recipient EXCEPT ![self] = "null"]
    /\ url' = [url EXCEPT ![self] = "null"]
    /\ UNCHANGED <<sheet, hiddenRows, catalog, properties, sheetAtStart, mails, posts>>

\* ------------------------------------------------- updateSheet: reading

\* sheet.getRange("A2:D").getValues().map(...): the rows from row 2 down,
\* the unused rows of the grid included, each title normalized.
ReadTvPrograms(rows) ==
    LET values == SubSeq(rows, 2, Len(rows)) \o <<BlankRow>>
    IN [i \in 1..Len(values) |->
            TvProgram(normalizeTitle(values[i].title), values[i].startDateTime,
                      values[i].recorded, values[i].url)]

\* Lines 63-71, and the entry of fetchTvPrograms(keyword, channel, 3):
\* lines 156-159.  The search API holds some catalog during the run.
Read(self) ==
    /\ pc[self] = "read"
    /\ currentTvPrograms' = [currentTvPrograms EXCEPT ![self] = ReadTvPrograms(sheet)]
    /\ catalog' \in Catalogs
    /\ maxPage' = [maxPage EXCEPT ![self] = FetchMaxPage]
    /\ page' = [page EXCEPT ![self] = 0]
    /\ offsetCount' = [offsetCount EXCEPT ![self] = 0]
    /\ tvPrograms' = [tvPrograms EXCEPT ![self] = <<>>]
    /\ pc' = [pc EXCEPT ![self] = "fetch"]
    /\ UNCHANGED <<scriptLock, sheet, hiddenRows, properties, sheetAtStart, threw, requests, responses,
                   fetchedTvPrograms, newValues, unrecordedValues, notifyLocals>>

\* ------------------------------------------- fetchTvPrograms (155-187)

\* Lines 171-181: one record of a page as a TvProgram.
ToTvProgram(it) ==
    TvProgram(normalizeTitle(it.title), it.start_date, JsFalse, UrlOf(it.cid))

ToTvPrograms(value) == [i \in 1..Len(value) |-> ToTvProgram(value[i])]

\* The records of a page put in front of the result.
UnshiftAll(programs, value) == ToTvPrograms(value) \o programs

\* searchResult.body.value.forEach(it => { ... tvPrograms.push({...}); })
PushAll(programs, value) == programs \o ToTvPrograms(value)

\* The stop condition without its test of the page's length.
StopConditionIgnoringCount(offset, totalCount, count) ==
    offset >= totalCount \/ totalCount <= 0

\* The stop condition with > for >=.
StopConditionOffByOne(offset, totalCount, count) ==
    offset > totalCount \/ totalCount <= 0 \/ count <= 0

\* if (offsetCount >= totalCount || totalCount <= 0 || count <= 0) break;
StopCondition(offset, totalCount, count) ==
    offset >= totalCount \/ totalCount <= 0 \/ count <= 0

\* The loop condition with <= for <.
LoopConditionOffByOne(p, max) == p <= max

\* while (page++ < maxPage)
LoopCondition(p, max) == p < max

\* One round of the loop, lines 160-184, for a response among searchResults;
\* on break the function returns tvPrograms (line 186).
FetchPage(self, searchResults) ==
    /\ pc[self] = "fetch"
    /\ LoopCondition(page[self], maxPage[self])
    /\ \E searchResult \in searchResults :
        LET totalCount == searchResult.count
            count == Len(searchResult.value)
        IN /\ page' = [page EXCEPT ![self] = page[self] + 1]
           /\ requests' = [requests EXCEPT ![self] = Append(requests[self], offsetCount[self])]
           /\ responses' = [responses EXCEPT ![self] = Append(responses[self], searchResult)]
           /\ IF StopCondition(offsetCount[self], totalCount, count)
                THEN /\ pc' = [pc EXCEPT ![self] = "merge"]
                     /\ fetchedTvPrograms' =
                            [fetchedTvPrograms EXCEPT ![self] = tvPrograms[self]]
                     /\ UNCHANGED <<offsetCount, tvPrograms>>
                ELSE /\ offsetCount' =
                            [offsetCount EXCEPT ![self] = offsetCount[self] + count]
                     /\ tvPrograms' =
                            [tvPrograms EXCEPT
                                ![self] = PushAll(tvPrograms[self], searchResult.value)]
                     /\ UNCHANGED <<pc, fetchedTvPrograms>>
    /\ UNCHANGED <<shared, threw, maxPage, currentTvPrograms, newValues,
                   unrecordedValues, notifyLocals>>

\* The loop condition fails (page is incremented all the same): line 186.
FetchReturn(self) ==
    /\ pc[self] = "fetch"
    /\ ~LoopCondition(page[self], maxPage[self])
    /\ page' = [page EXCEPT ![self] = page[self] + 1]
    /\ fetchedTvPrograms' = [fetchedTvPrograms EXCEPT ![self] = tvPrograms[self]]
    /\ pc' = [pc EXCEPT ![self] = "merge"]
    /\ UNCHANGED <<shared, threw, maxPage, offsetCount, tvPrograms, requests, responses,
                   currentTvPrograms, newValues, unrecordedValues, notifyLocals>>

\* ------------------------------------------------- updateSheet: merging

\* Lines 76-96.
Merge(self) ==
    /\ pc[self] = "merge"
    /\ newValues' =
           [newValues EXCEPT
               ![self] = MergedTvPrograms(currentTvPrograms[self], fetchedTvPrograms[self])]
    /\ fetchedTvPrograms' =
           [fetchedTvPrograms EXCEPT
               ![self] = FetchedAfterMerge(currentTvPrograms[self], fetchedTvPrograms[self])]
    /\ pc' = [pc EXCEPT ![self] = "clear"]
    /\ UNCHANGED <<shared, threw, fetchLocals, currentTvPrograms, unrecordedValues,
                   notifyLocals>>

\* ------------------------------------------------- updateSheet: writing

\* range.setValues(values) on the rows from row `first` down: the rows
\* before and after the range keep their cells.
WriteRows(rows, first, values) ==
    LET last == first + Len(values) - 1
        n == IF Len(rows) > last THEN Len(rows) ELSE last
    IN [i \in 1..n |->
            IF i >= first /\ i <= last THEN values[i - first + 1]
            ELSE IF i <= Len(rows) THEN rows[i]
            ELSE BlankRow]

\* sheet.clear()
Clear(self) ==
    /\ pc[self] = "clear"
    /\ sheet' = <<>>
    /\ pc' = [pc EXCEPT ![self] = "header"]
    /\ UNCHANGED <<scriptLock, hiddenRows, catalog, properties, sheetAtStart, threw, fetchLocals, sheetLocals,
                   notifyLocals>>

\* Lines 104-107.
SetHeader(self) ==
    /\ pc[self] = "header"
    /\ sheet' = WriteRows(sheet, 1, <<HeadRow>>)
    /\ pc' = [pc EXCEPT ![self] = "values"]
    /\ UNCHANGED <<scriptLock, hiddenRows, catalog, properties, sheetAtStart, threw, fetchLocals, sheetLocals,
                   notifyLocals>>

\* Line 110: newValues[0].length is a TypeError when newValues is empty.
SetValues(self) ==
    /\ pc[self] = "values"
    /\ IF newValues[self] = <<>>
         THEN /\ pc' = [pc EXCEPT ![self] = "release"]
              /\ threw' = [threw EXCEPT ![self] = TRUE]
              /\ UNCHANGED sheet
         ELSE /\ sheet' = WriteRows(sheet, 2, newValues[self])
              /\ pc' = [pc EXCEPT ![self] = "format"]
              /\ UNCHANGED threw
    /\ UNCHANGED <<scriptLock, hiddenRows, catalog, properties, sheetAtStart, fetchLocals, sheetLocals, notifyLocals>>

\* The cell of column 2 as new Date(value[1]).getTime() reads it.
StartTime(row) == row.startDateTime

RECURSIVE InsertByStartTime(_, _)
InsertByStartTime(sorted, row) ==
    IF sorted = <<>> THEN <<row>>
    ELSE IF StartTime(row) < StartTime(Head(sorted)) THEN <<row>> \o sorted
    ELSE <<Head(sorted)>> \o InsertByStartTime(Tail(sorted), row)

RECURSIVE SortByStartTime(_)
SortByStartTime(rows) ==
    IF rows = <<>> THEN <<>>
    ELSE InsertByStartTime(SortByStartTime(SubSeq(rows, 1, Len(rows) - 1)), rows[Len(rows)])

\* filter.sort(2, true): the rows below the filter's header row, ascending by
\* column 2; rows of equal time keep their order.
SortedSheet(rows) ==
    IF rows = <<>> THEN rows
    ELSE <<rows[1]>> \o SortByStartTime(SubSeq(rows, 2, Len(rows)))

\* whenDateAfter(RelativeDate.TODAY) on column 2: the rows the filter hides.
HiddenByFilter(rows) == {i \in 2..Len(rows) : ~(StartTime(rows[i]) > Today)}

\* Lines 113-137: formats, checkboxes and banding change no value; the new
\* filter sorts the rows and hides those not after today.
Format(self) ==
    /\ pc[self] = "format"
    /\ sheet' = SortedSheet(sheet)
    /\ hiddenRows' = HiddenByFilter(sheet')
    /\ pc' = [pc EXCEPT ![self] = "filter"]
    /\ UNCHANGED <<scriptLock, catalog, properties, sheetAtStart, threw, fetchLocals, sheetLocals, notifyLocals>>

\* --------------------------------------- updateSheet: filter (139-146)

\* value[2] of a row of dataRange.getValues().
RecordedCell(value) == IF value = HeadRow THEN HeadRow.head[3] ELSE value.recorded

\* !value[2] is true of false and of undefined, not of true nor of a text.
IsFalsy(cell) == cell \in {JsFalse, JsUndefined}

\* conditionDate.setDate(conditionDate.getDate() + UNTIL_DATE)
ConditionDate(now) == now + UNTIL_DATE

\* The callback with <= for <.
IsUnrecordedInclusive(value, index, firstRow, hidden, now) ==
    /\ IsFalsy(RecordedCell(value))
    /\ (index + firstRow) \notin hidden
    /\ StartTime(value) <= ConditionDate(now)

\* The callback of filter, for the row at position index (from 0).
IsUnrecorded(value, index, firstRow, hidden, now) ==
    /\ IsFalsy(RecordedCell(value))
    /\ (index + firstRow) \notin hidden
    /\ StartTime(value) < ConditionDate(now)

RECURSIVE FilterFrom(_, _, _, _, _)
FilterFrom(values, index, firstRow, hidden, now) ==
    IF index >= Len(values) THEN <<>>
    ELSE (IF IsUnrecorded(values[index + 1], index, firstRow, hidden, now)
            THEN <<values[index + 1]>> ELSE <<>>)
         \o FilterFrom(values, index + 1, firstRow, hidden, now)

\* dataRange.getRow(): the data range starts at row 1.
FirstRow == 1

\* (dataRange.getValues() as SheetValue[]).filter(...)
UnrecordedValues(values, hidden, now) == FilterFrom(values, 0, FirstRow, hidden, now)

\* Lines 139-149.  When there is something to notify, the script properties
\* are as the user has set them by then.
Filter(self) ==
    /\ pc[self] = "filter"
    /\ unrecordedValues' =
           [unrecordedValues EXCEPT ![self] = UnrecordedValues(sheet, hiddenRows, Now)]
    /\ IF Len(unrecordedValues'[self]) > 0
         THEN /\ pc' = [pc EXCEPT ![self] = "gmail"]
              /\ properties' \in ScriptProperties
         ELSE /\ pc' = [pc EXCEPT ![self] = "release"]
              /\ UNCHANGED properties
    /\ UNCHANGED <<scriptLock, sheet, hiddenRows, catalog, sheetAtStart, threw, fetchLocals,
                   currentTvPrograms, fetchedTvPrograms, newValues, notifyLocals>>

\* ----------------------------------------------- notifications (208-260)

\* MailApp.sendEmail either returns or throws (quota, invalid recipient).
MailOutcomes == {"sent", "exception"}

\* UrlFetchApp.fetch with muteHttpExceptions returns a response of any code,
\* or throws (address unreachable, invalid URL).
FetchOutcomes == {"200", "other", "exception"}

\* notifyToGmail (208-228): without a recipient it logs and returns; an
\* exception of sendEmail is caught nowhere in updateSheet.
NotifyToGmail(self) ==
    /\ pc[self] = "gmail"
    /\ recipient' = [recipient EXCEPT ![self] = properties.RECIPIENT_EMAIL]
    /\ IF recipient'[self] = "null"
         THEN /\ pc' = [pc EXCEPT ![self] = "slack"]
              /\ UNCHANGED <<mails, threw>>
         ELSE \E outcome \in MailOutcomes :
                 /\ mails' = [mails EXCEPT ![self] = mails[self] + 1]
                 /\ IF outcome = "exception"
                      THEN /\ pc' = [pc EXCEPT ![self] = "release"]
                           /\ threw' = [threw EXCEPT ![self] = TRUE]
                      ELSE /\ pc' = [pc EXCEPT ![self] = "slack"]
                           /\ UNCHANGED threw
    /\ UNCHANGED <<shared, fetchLocals, sheetLocals, url, posts>>

\* notifyToSlack (230-260): without a url it logs and returns; a response
\* code other than 200 is logged only; updateSheet ends after it.
NotifyToSlack(self) ==
    /\ pc[self] = "slack"
    /\ url' = [url EXCEPT ![self] = properties.SLACK_WEB_HOOK_URL]
    /\ IF url'[self] = "null"
         THEN UNCHANGED <<posts, threw>>
         ELSE \E outcome \in FetchOutcomes :
                 /\ posts' = [posts EXCEPT ![self] = posts[self] + 1]
                 /\ threw' = [threw EXCEPT ![self] = (outcome = "exception")]
    /\ pc' = [pc EXCEPT ![self] = "release"]
    /\ UNCHANGED <<shared, fetchLocals, sheetLocals, recipient, mails>>

\* ------------------------------------------------- the specifications

Each(v) == [p \in Procs |-> v]
Only(p, v, w) == [q \in Procs |-> IF q = p THEN v ELSE w]

\* The rows a run writes for the records of the search API, with either flag.
StoredRows ==
    {TvProgram(normalizeTitle(r.title), r.start_date, f, UrlOf(r.cid)) :
        r \in RawRecords, f \in {JsTrue, JsFalse}}

\* The sheet before the first run: new and empty, or a header and some rows.
InitialSheets ==
    {<<>>} \cup {<<HeadRow>> \o rows : rows \in SeqsUpTo(StoredRows, MaxStored)}

\* No invocation has begun.
Init ==
    /\ scriptLock = {}
    /\ sheet \in InitialSheets
    /\ hiddenRows = {}
    /\ catalog = <<>>
    /\ properties = NoProperties
    /\ sheetAtStart = sheet
    /\ pc = Each("execute")
    /\ threw = Each(FALSE)
    /\ currentTvPrograms = Each(<<>>)
    /\ maxPage = Each(0)
    /\ page = Each(0)
    /\ offsetCount = Each(0)
    /\ tvPrograms = Each(<<>>)
    /\ requests = Each(<<>>)
    /\ responses = Each(<<>>)
    /\ fetchedTvPrograms = Each(<<>>)
    /\ newValues = Each(<<>>)
    /\ unrecordedValues = Each(<<>>)
    /\ recipient = Each("null")
    /\ url = Each("null")
    /\ mails = Each(0)
    /\ posts = Each(0)

Next ==
    \E self \in Procs :
        \/ Execute(self)
        \/ Read(self)
        \/ FetchPage(self, {CatalogPage(catalog, offsetCount[self])})
        \/ FetchReturn(self)
        \/ Merge(self)
        \/ Clear(self)
        \/ SetHeader(self)
        \/ SetValues(self)
        \/ Format(self)
        \/ Filter(self)
        \/ NotifyToGmail(self)
        \/ NotifyToSlack(self)
        \/ Throw(self)
        \/ ReleaseLock(self)

\* Every run of the script: concurrent invocations of execute.
Spec == Init /\ [][Next]_vars

\* The titles the merge is checked with: empty, plain, an array index, and
\* names a {} inherits.
MergeTitles == {Str_empty, Str_A, Str_B, Str_7, Str_constructor, Str_proto}

\* Lists of rows read from the sheet; row i has its own time and url.
MergeCurrents ==
    {[i \in 1..Len(c) |-> TvProgram(c[i][1], i, c[i][2], UrlOf(i))] :
        c \in SeqsUpTo(MergeTitles \X {JsTrue, JsFalse}, MaxCurrent)}

\* Lists returned by fetchTvPrograms; program j has its own time and url.
MergeFetcheds ==
    {[j \in 1..Len(f) |-> TvProgram(f[j], 10 + j, JsFalse, UrlOf(10 + j))] :
        f \in SeqsUpTo(MergeTitles, MaxFetched)}

\* Invocation 1 holds the lock and is about to merge any two lists.
InitMerge ==
    /\ scriptLock = {1}
    /\ sheet = <<>>
    /\ hiddenRows = {}
    /\ catalog = <<>>
    /\ properties = NoProperties
    /\ sheetAtStart = sheet
    /\ pc = Only(1, "merge", "execute")
    /\ threw = Each(FALSE)
    /\ \E c \in MergeCurrents : currentTvPrograms = Only(1, c, <<>>)
    /\ maxPage = Each(0)
    /\ page = Each(0)
    /\ offsetCount = Each(0)
    /\ tvPrograms = Each(<<>>)
    /\ requests = Each(<<>>)
    /\ responses = Each(<<>>)
    /\ \E f \in MergeFetcheds : fetchedTvPrograms = Only(1, f, <<>>)
    /\ newValues = Each(<<>>)
    /\ unrecordedValues = Each(<<>>)
    /\ recipient = Each("null")
    /\ url = Each("null")
    /\ mails = Each(0)
    /\ posts = Each(0)

NextMerge == \E self \in Procs : Merge(self)

\* The merge of lines 76-96 on every pair of lists within the bounds.
SpecMerge == InitMerge /\ [][NextMerge]_vars

\* Invocation 1 holds the lock and enters fetchTvPrograms with any maxPage.
InitFetch ==
    /\ scriptLock = {1}
    /\ sheet = <<>>
    /\ hiddenRows = {}
    /\ catalog = <<>>
    /\ properties = NoProperties
    /\ sheetAtStart = sheet
    /\ pc = Only(1, "fetch", "execute")
    /\ threw = Each(FALSE)
    /\ currentTvPrograms = Each(<<>>)
    /\ \E m \in 0..MaxPages : maxPage = Only(1, m, 0)
    /\ page = Each(0)
    /\ offsetCount = Each(0)
    /\ tvPrograms = Each(<<>>)
    /\ requests = Each(<<>>)
    /\ responses = Each(<<>>)
    /\ fetchedTvPrograms = Each(<<>>)
    /\ newValues = Each(<<>>)
    /\ unrecordedValues = Each(<<>>)
    /\ recipient = Each("null")
    /\ url = Each("null")
    /\ mails = Each(0)
    /\ posts = Each(0)

NextFetch ==
    \E self \in Procs :
        \/ FetchPage(self, AnySearchResults)
        \/ FetchReturn(self)
        \/ Throw(self)

\* fetchTvPrograms against a search API that may answer anything.
SpecFetch == InitFetch /\ [][NextFetch]_vars

\* The same, where a call that can go on does go on: the script runs to the
\* end of the function unless the platform stops it.
FairSpecFetch == SpecFetch /\ WF_vars(NextFetch)

\* The times the filter is checked with: around now + UNTIL_DATE.
FilterTimes == {UNTIL_DATE - 1, UNTIL_DATE, UNTIL_DATE + 1}

\* Sheets as they are at line 142: the header and some rows.
FilterSheets ==
    {<<HeadRow>> \o [i \in 1..Len(r) |-> TvProgram(Str_A, r[i][1], r[i][2], UrlOf(i))] :
        r \in SeqsUpTo(FilterTimes \X {JsTrue, JsFalse}, MaxCurrent)}

\* Invocation 1 holds the lock and is about to filter any sheet, of which
\* the sheet's filter hides any rows.
InitFilter ==
    /\ scriptLock = {1}
    /\ sheet \in FilterSheets
    /\ hiddenRows \in SUBSET (1..Len(sheet))
    /\ catalog = <<>>
    /\ properties = NoProperties
    /\ sheetAtStart = sheet
    /\ pc = Only(1, "filter", "execute")
    /\ threw = Each(FALSE)
    /\ currentTvPrograms = Each(<<>>)
    /\ maxPage = Each(0)
    /\ page = Each(0)
    /\ offsetCount = Each(0)
    /\ tvPrograms = Each(<<>>)
    /\ requests = Each(<<>>)
    /\ responses = Each(<<>>)
    /\ fetchedTvPrograms = Each(<<>>)
    /\ newValues = Each(<<>>)
    /\ unrecordedValues = Each(<<>>)
    /\ recipient = Each("null")
    /\ url = Each("null")
    /\ mails = Each(0)
    /\ posts = Each(0)

NextFilter == \E self \in Procs : Filter(self)

\* The filter of lines 139-146 on every sheet within the bounds.
SpecFilter == InitFilter /\ [][NextFilter]_vars

\* The characters of the titles normalizeTitle is checked with: the marker,
\* the brackets, white space and a letter.
TitleChars == {"●", "[", "]", " ", "A"}

\* Sheets of the header and one row, with any title over TitleChars.
TitleSheets ==
    {<<HeadRow, TvProgram(t, 1, JsFalse, UrlOf(1))>> : t \in SeqsUpTo(TitleChars, MaxTitle)}

\* Invocation 1 holds the lock and is about to read any such sheet.
InitNormalize ==
    /\ scriptLock = {1}
    /\ sheet \in TitleSheets
    /\ hiddenRows = {}
    /\ catalog = <<>>
    /\ properties = NoProperties
    /\ sheetAtStart = sheet
    /\ pc = Only(1, "read", "execute")
    /\ threw = Each(FALSE)
    /\ currentTvPrograms = Each(<<>>)
    /\ maxPage = Each(0)
    /\ page = Each(0)
    /\ offsetCount = Each(0)
    /\ tvPrograms = Each(<<>>)
    /\ requests = Each(<<>>)
    /\ responses = Each(<<>>)
    /\ fetchedTvPrograms = Each(<<>>)
    /\ newValues = Each(<<>>)
    /\ unrecordedValues = Each(<<>>)
    /\ recipient = Each("null")
    /\ url = Each("null")
    /\ mails = Each(0)
    /\ posts = Each(0)

NextNormalize == \E self \in Procs : Read(self)

\* The normalizeTitle of line 67 on every title within the bounds.
SpecNormalize == InitNormalize /\ [][NextNormalize]_vars

\* A title whose brackets lie within brackets.
Str_nested == <<"[", "[", "]", "]">>

\* Titles a stored row may carry besides those of RawRecords: a number, a
\* name a {} inherits, "__proto__", and brackets within brackets.
RunTitles == {Str_A, Str_7, Str_constructor, Str_proto, Str_nested}

\* The sheet before a sequence of runs: a header and rows of such titles,
\* with either flag.
RunSheets ==
    {<<HeadRow>> \o [i \in 1..Len(r) |-> TvProgram(r[i][1], 10 + i, r[i][2], UrlOf(10 + i))] :
        r \in SeqsUpTo(RunTitles \X {JsTrue, JsFalse}, MaxStored)}

\* No invocation has begun, and the sheet holds any such rows.
InitRuns ==
    /\ scriptLock = {}
    /\ sheet \in RunSheets
    /\ hiddenRows = {}
    /\ catalog = <<>>
    /\ properties = NoProperties
    /\ sheetAtStart = sheet
    /\ pc = Each("execute")
    /\ threw = Each(FALSE)
    /\ currentTvPrograms = Each(<<>>)
    /\ maxPage = Each(0)
    /\ page = Each(0)
    /\ offsetCount = Each(0)
    /\ tvPrograms = Each(<<>>)
    /\ requests = Each(<<>>)
    /\ responses = Each(<<>>)
    /\ fetchedTvPrograms = Each(<<>>)
    /\ newValues = Each(<<>>)
    /\ unrecordedValues = Each(<<>>)
    /\ recipient = Each("null")
    /\ url = Each("null")
    /\ mails = Each(0)
    /\ posts = Each(0)

\* Runs of the script one after another, from any such sheet.
SpecRuns == InitRuns /\ [][Next]_vars

\* ------------------------------------------------------------ the claims

\* The positions of list l whose program has title t.
Positions(l, t) == {i \in 1..Len(l) : l[i].title = t}

\* Invocation p takes the step of lines 76-96.
Merges(p) == pc[p] = "merge" /\ pc'[p] = "clear"

\* C1: whatever lists are merged, no two entries of the merge result (the
\* values of the title-keyed map, newValues) have the same title.
C1_UniqueTitles ==
    \A p \in Procs : \A i, j \in 1..Len(newValues[p]) :
        newValues[p][i].title = newValues[p][j].title => i = j

\* A merge of two rows and two fetched programs, all titled "A", into one entry.
C1_Witness ==
    \E p \in Procs :
        /\ pc[p] = "clear"
        /\ Len(currentTvPrograms[p]) = 2
        /\ Len(fetchedTvPrograms[p]) = 2
        /\ \A i \in 1..2 : currentTvPrograms[p][i].title = Str_A
        /\ \A i \in 1..2 : fetchedTvPrograms[p][i].title = Str_A
        /\ Len(newValues[p]) = 1

\* C2, as claimed: for every fetched program whose title equals the title of
\* a row of the existing list, the merge result has an entry for that title
\* with the recorded flag of the existing row (the last of that title, the
\* one the map holds) and the url and startDateTime of a fetched program of
\* that title.
C2_CarriesRecorded ==
    [][\A p \in Procs : Merges(p) =>
         \A i \in 1..Len(fetchedTvPrograms[p]) :
            LET t == fetchedTvPrograms[p][i].title
                rows == Positions(currentTvPrograms[p], t)
                last == CHOOSE m \in rows : \A n \in rows : n <= m
            IN rows # {} =>
                  \E k \in 1..Len(newValues'[p]) :
                     /\ newValues'[p][k].title = t
                     /\ newValues'[p][k].recorded = currentTvPrograms[p][last].recorded
                     /\ \E i2 \in Positions(fetchedTvPrograms[p], t) :
                           /\ newValues'[p][k].url = fetchedTvPrograms[p][i2].url
                           /\ newValues'[p][k].startDateTime =
                                  fetchedTvPrograms[p][i2].startDateTime]_vars

\* What does hold of C2: the same for every title but the empty one and
\* "__proto__".
C2_ExceptEmptyAndProto ==
    [][\A p \in Procs : Merges(p) =>
         \A i \in 1..Len(fetchedTvPrograms[p]) :
            LET t == fetchedTvPrograms[p][i].title
                rows == Positions(currentTvPrograms[p], t)
                last == CHOOSE m \in rows : \A n \in rows : n <= m
            IN rows # {} /\ t \notin {Str_empty, Str_proto} =>
                  \E k \in 1..Len(newValues'[p]) :
                     /\ newValues'[p][k].title = t
                     /\ newValues'[p][k].recorded = currentTvPrograms[p][last].recorded
                     /\ \E i2 \in Positions(fetchedTvPrograms[p], t) :
                           /\ newValues'[p][k].url = fetchedTvPrograms[p][i2].url
                           /\ newValues'[p][k].startDateTime =
                                  fetchedTvPrograms[p][i2].startDateTime]_vars

\* C3, as claimed: when two or more fetched programs share a title, the merge
\* result has exactly one entry for that title, with the url and
\* startDateTime of the first of them in the order fetched.
C3_EarliestFetchedWins ==
    [][\A p \in Procs : Merges(p) =>
         \A i \in 1..Len(fetchedTvPrograms[p]) :
            LET same == Positions(fetchedTvPrograms[p], fetchedTvPrograms[p][i].title)
                first == CHOOSE m \in same : \A n \in same : m <= n
                entries == Positions(newValues'[p], fetchedTvPrograms[p][i].title)
            IN Cardinality(same) >= 2 =>
                  /\ Cardinality(entries) = 1
                  /\ \A k \in entries :
                        /\ newValues'[p][k].url = fetchedTvPrograms[p][first].url
                        /\ newValues'[p][k].startDateTime =
                               fetchedTvPrograms[p][first].startDateTime]_vars

\* C4, as claimed: a fetched program whose title is the title of no row of
\* the existing list is in the merge result with recorded = false.
C4_NewTitleUnrecorded ==
    [][\A p \in Procs : Merges(p) =>
         \A i \in 1..Len(fetchedTvPrograms[p]) :
            Positions(currentTvPrograms[p], fetchedTvPrograms[p][i].title) = {} =>
               \E k \in 1..Len(newValues'[p]) :
                  /\ newValues'[p][k].title = fetchedTvPrograms[p][i].title
                  /\ newValues'[p][k].recorded = JsFalse]_vars

\* What does hold of C3: the same for every title but "__proto__".
C3_ExceptProto ==
    [][\A p \in Procs : Merges(p) =>
         \A i \in 1..Len(fetchedTvPrograms[p]) :
            LET same == Positions(fetchedTvPrograms[p], fetchedTvPrograms[p][i].title)
                first == CHOOSE m \in same : \A n \in same : m <= n
                entries == Positions(newValues'[p], fetchedTvPrograms[p][i].title)
            IN Cardinality(same) >= 2 /\ fetchedTvPrograms[p][i].title # Str_proto =>
                  /\ Cardinality(entries) = 1
                  /\ \A k \in entries :
                        /\ newValues'[p][k].url = fetchedTvPrograms[p][first].url
                        /\ newValues'[p][k].startDateTime =
                               fetchedTvPrograms[p][first].startDateTime]_vars

\* What does hold of C4: the same for every title that is no name a {}
\* inherits.
C4_ExceptInherited ==
    [][\A p \in Procs : Merges(p) =>
         \A i \in 1..Len(fetchedTvPrograms[p]) :
            /\ Positions(currentTvPrograms[p], fetchedTvPrograms[p][i].title) = {}
            /\ fetchedTvPrograms[p][i].title \notin ObjectPrototypeKeys \cup {Str_proto}
            => \E k \in 1..Len(newValues'[p]) :
                  /\ newValues'[p][k].title = fetchedTvPrograms[p][i].title
                  /\ newValues'[p][k].recorded = JsFalse]_vars

\* The n-th page invocation p received is one the stop condition rejects:
\* requests[p][n] is the offset as it was before that page.
Rejected(p, n) ==
    \/ requests[p][n] >= responses[p][n].count
    \/ responses[p][n].count <= 0
    \/ Len(responses[p][n].value) <= 0

\* The programs of the pages in rs that the stop condition does not reject,
\* page after page, each page in the order of the server; os holds the
\* offsets the pages were requested with.
RECURSIVE ConsumedPrograms(_, _)
ConsumedPrograms(os, rs) ==
    IF rs = <<>> THEN <<>>
    ELSE LET r == Head(rs)
             rejected == Head(os) >= r.count \/ r.count <= 0 \/ Len(r.value) <= 0
         IN (IF rejected THEN <<>> ELSE ToTvPrograms(r.value))
                \o ConsumedPrograms(Tail(os), Tail(rs))

\* The sum of value.length over the same pages.
RECURSIVE ConsumedCount(_, _)
ConsumedCount(os, rs) ==
    IF rs = <<>> THEN 0
    ELSE LET r == Head(rs)
             rejected == Head(os) >= r.count \/ r.count <= 0 \/ Len(r.value) <= 0
         IN (IF rejected THEN 0 ELSE Len(r.value)) + ConsumedCount(Tail(os), Tail(rs))

\* C5: whatever the server answers and whatever maxPage >= 0 is,
\* fetchTvPrograms issues at most maxPage requests, issues none after a page
\* the stop condition rejected (a rejected page is the last one, and the
\* loop is left), and comes to an end.
C5_FetchTerminates ==
    /\ [](\A p \in Procs :
            /\ Len(requests[p]) <= maxPage[p]
            /\ \A n \in 1..Len(responses[p]) :
                  Rejected(p, n) => n = Len(responses[p]) /\ pc[p] # "fetch")
    /\ \A p \in Procs : (pc[p] = "fetch") ~> (pc[p] # "fetch")

\* A call that issued maxPage = 2 requests, none rejected, and returned.
C5_Witness ==
    \E p \in Procs :
        /\ pc[p] = "merge"
        /\ maxPage[p] = 2
        /\ Len(requests[p]) = 2
        /\ \A n \in 1..2 : ~Rejected(p, n)

\* C6: a page is discarded and the loop left exactly when
\* offset >= totalCount, or totalCount <= 0, or count <= 0, with the offset
\* as it was before the page: then no program is appended, the offset stays
\* and the result so far is returned; otherwise the page's programs are
\* appended, the offset grows by count and the loop goes on.
C6_StopCondition ==
    [][\A p \in Procs :
          Len(responses'[p]) = Len(responses[p]) + 1 =>
             LET r == responses'[p][Len(responses'[p])]
                 stop == offsetCount[p] >= r.count \/ r.count <= 0 \/ Len(r.value) <= 0
             IN IF stop
                  THEN /\ pc'[p] = "merge"
                       /\ tvPrograms'[p] = tvPrograms[p]
                       /\ offsetCount'[p] = offsetCount[p]
                       /\ fetchedTvPrograms'[p] = tvPrograms[p]
                  ELSE /\ pc'[p] = "fetch"
                       /\ tvPrograms'[p] = tvPrograms[p] \o ToTvPrograms(r.value)
                       /\ offsetCount'[p] = offsetCount[p] + Len(r.value)]_vars

\* A page with records, rejected because the offset had reached the total:
\* the call returned what it had before that page.
C6_Witness ==
    \E p \in Procs :
        /\ pc[p] = "merge"
        /\ Len(responses[p]) = 2
        /\ ~Rejected(p, 1)
        /\ Len(responses[p][2].value) > 0
        /\ responses[p][2].count > 0
        /\ offsetCount[p] >= responses[p][2].count
        /\ Len(fetchedTvPrograms[p]) = Len(responses[p][1].value)

\* C7: the sequence fetchTvPrograms returns is the concatenation, in request
\* order and in server order within a page, of the programs of the consumed
\* pages; its length is the sum of their counts.
C7_ReturnsConsumedPages ==
    \A p \in Procs :
        pc[p] = "merge" =>
            /\ fetchedTvPrograms[p] = ConsumedPrograms(requests[p], responses[p])
            /\ Len(fetchedTvPrograms[p]) = ConsumedCount(requests[p], responses[p])

\* A call that returned the programs of two pages, the first page holding
\* two different records.
C7_Witness ==
    \E p \in Procs :
        /\ pc[p] = "merge"
        /\ Len(responses[p]) = 2
        /\ \A n \in 1..2 : ~Rejected(p, n)
        /\ Len(responses[p][1].value) = 2
        /\ responses[p][1].value[1] # responses[p][1].value[2]
        /\ Len(fetchedTvPrograms[p]) >= 3

\* The rows of the sheet, from row i down, that C8 says are selected: a row
\* of a program whose recorded flag is false, that the sheet's filter does
\* not hide, and whose time is strictly before now + 5 days.
RECURSIVE SelectedRows(_, _, _)
SelectedRows(rows, hidden, i) ==
    IF i > Len(rows) THEN <<>>
    ELSE (IF /\ rows[i] # HeadRow
             /\ rows[i].recorded = JsFalse
             /\ i \notin hidden
             /\ rows[i].startDateTime < Now + 5
            THEN <<rows[i]>> ELSE <<>>)
         \o SelectedRows(rows, hidden, i + 1)

\* C8: the filter of lines 142-146 selects a row if and only if its recorded
\* flag is false, the sheet's filter does not hide it and its startDateTime
\* is strictly earlier than now + 5 days; the selected rows keep their order.
C8_UnrecordedWindow ==
    [][\A p \in Procs :
          pc[p] = "filter" /\ pc'[p] # "filter" /\ ~threw'[p] =>
             unrecordedValues'[p] = SelectedRows(sheet, hiddenRows, 1)]_vars

\* A filtered sheet of three visible, unrecorded programs, one before, one at
\* and one after now + 5 days: only the first is selected.
C8_Witness ==
    \E p \in Procs :
        /\ pc[p] = "gmail"
        /\ Len(sheet) = 3
        /\ hiddenRows = {}
        /\ sheet[2].recorded = JsFalse /\ sheet[2].startDateTime = UNTIL_DATE
        /\ sheet[3].recorded = JsFalse /\ sheet[3].startDateTime = UNTIL_DATE - 1
        /\ unrecordedValues[p] = <<sheet[3]>>

\* C9: no two invocations of execute are in updateSheet at once, and the one
\* that is there is the only holder of the script lock.
C9_OneRunAtATime ==
    \A p \in Procs :
        pc[p] \in UpdateSheetSteps =>
            /\ scriptLock = {p}
            /\ \A q \in Procs : pc[q] \in UpdateSheetSteps => q = p

\* One invocation is writing the sheet while another has come and gone.
C9_Witness ==
    \E p, q \in Procs :
        /\ p # q
        /\ pc[p] = "values"
        /\ pc[q] = "skipped"

\* C10: an invocation that does not get the lock returns at once: its step
\* reads no row, issues no request, leaves the sheet, the lock and the
\* notification counts as they are and raises nothing; and once skipped it
\* stays skipped, never run later.
C10_SkippedRunDoesNothing ==
    [][\A p \in Procs :
          /\ (pc[p] = "execute" /\ scriptLock # {} /\ pc'[p] # pc[p]) =>
                /\ pc'[p] = "skipped"
                /\ ~threw'[p]
                /\ UNCHANGED <<sheet, hiddenRows, scriptLock, catalog, properties, sheetAtStart>>
                /\ UNCHANGED <<currentTvPrograms, requests, responses, mails, posts>>
          /\ pc[p] = "skipped" =>
                /\ pc'[p] = "skipped"
                /\ ~threw'[p]
                /\ currentTvPrograms'[p] = <<>>
                /\ requests'[p] = <<>>
                /\ mails'[p] = 0
                /\ posts'[p] = 0]_vars

\* An invocation was skipped while another went on to notify.
C10_Witness ==
    \E p, q \in Procs :
        /\ pc[p] = "skipped"
        /\ pc[q] = "slack"
        /\ mails[q] = 1
        /\ mails[p] = 0

\* The invocations that have ended after holding the lock.
Ended == {"done", "failed"}

\* C11: an invocation of execute that acquired the lock releases it when it
\* ends, after a normal completion of updateSheet as after a failure at any
\* step: the lock is held by running invocations only, an exception at any
\* step leads to the release and nowhere else, and every step that ends an
\* invocation gives the lock up, so that a later invocation can acquire it.
C11_LockReleased ==
    /\ [](\A p \in Procs : p \in scriptLock => pc[p] \in UpdateSheetSteps \cup {"release"})
    /\ [][\A p \in Procs :
             /\ threw'[p] /\ ~threw[p] => pc'[p] = "release" /\ p \in scriptLock'
             /\ pc[p] = "release" /\ pc'[p] # "release" =>
                    pc'[p] \in Ended /\ p \notin scriptLock'
             /\ pc[p] \notin Ended /\ pc'[p] \in Ended =>
                    pc[p] = "release" /\ p \in scriptLock /\ p \notin scriptLock']_vars

\* An invocation failed, and a later one holds the lock.
C11_Witness ==
    \E p, q \in Procs :
        /\ pc[p] = "failed"
        /\ pc[q] = "read"
        /\ scriptLock = {q}

\* C12, as claimed: once the filtered rows are not empty, each delivery is
\* attempted whatever becomes of the other one: after an email that was
\* attempted (sent or failed) or skipped for want of a recipient, the
\* webhook delivery comes next; and by the time of the webhook delivery the
\* email to a configured recipient has been attempted.
C12_IndependentDeliveries ==
    [][\A p \in Procs :
          /\ (/\ pc[p] = "gmail"
              /\ \/ mails'[p] = mails[p] + 1
                 \/ properties.RECIPIENT_EMAIL = "null" /\ pc'[p] # "gmail" /\ ~threw'[p])
             => pc'[p] = "slack"
          /\ pc[p] = "slack" /\ properties.RECIPIENT_EMAIL = "set" => mails[p] = 1]_vars

\* The sheet holds the header and the whole merged list of invocation p,
\* as written or as sorted afterwards.
HoldsMergedList(p) ==
    \/ sheet = <<HeadRow>> \o newValues[p]
    \/ sheet = SortedSheet(<<HeadRow>> \o newValues[p])

\* C13, as claimed: a run that a failure aborts, at whatever step, leaves no
\* partial write: the sheet is exactly as it was at the start of the run or
\* holds the complete merged list, never a state in between (cleared, header
\* only).
C13_NoPartialWrite ==
    \A p \in Procs :
        pc[p] = "release" /\ threw[p] => sheet = sheetAtStart \/ HoldsMergedList(p)

\* Both destinations are configured.
BothConfigured ==
    properties.RECIPIENT_EMAIL = "set" /\ properties.SLACK_WEB_HOOK_URL = "set"

\* C14, as claimed: in a run, a notification is attempted only if the
\* filtered rows are not empty; by the end of updateSheet, when they are not
\* empty and both destinations are configured, the email and the webhook
\* post have each been attempted exactly once, and when they are empty
\* neither has been attempted.
C14_NotifiesIffUnrecorded ==
    \A p \in Procs :
        /\ mails[p] + posts[p] > 0 /\ pc[p] \notin Ended => Len(unrecordedValues[p]) > 0
        /\ pc[p] = "release" =>
              /\ Len(unrecordedValues[p]) > 0 /\ BothConfigured =>
                    mails[p] = 1 /\ posts[p] = 1
              /\ Len(unrecordedValues[p]) = 0 => mails[p] = 0 /\ posts[p] = 0

\* C15, as claimed: normalizeTitle is idempotent: a title that normalizeTitle
\* returned (here to line 67, for whatever title the sheet held) is returned
\* unchanged when normalized again, also when the title held several
\* markers or brackets within brackets.
C15_NormalizeIdempotent ==
    \A p \in Procs :
        pc[p] = "fetch" =>
            \A i \in 1..Len(currentTvPrograms[p]) :
                normalizeTitle(currentTvPrograms[p][i].title) = currentTvPrograms[p][i].title

\* Invocation p writes its rows (line 110) and goes on.
WritesValues(p) == SetValues(p) /\ pc'[p] = "format"

\* C16, as claimed: whatever the merge result, the empty one included, the
\* run can write it and complete, and the sheet then holds the header row
\* followed by exactly one row of four columns for every merged program (in
\* the order of the merge until line 132 sorts them).
C16_HeaderAndMergedRows ==
    \A p \in Procs :
        /\ pc[p] = "values" => ENABLED WritesValues(p)
        /\ pc[p] = "format" => sheet = <<HeadRow>> \o newValues[p]
        /\ pc[p] \in {"filter", "gmail", "slack"} \/ (pc[p] = "release" /\ ~threw[p]) =>
              /\ sheet = SortedSheet(<<HeadRow>> \o newValues[p])
              /\ \A i \in 2..Len(sheet) : IsTvProgram(sheet[i])

\* The programs in the order in which lines 80-94 put them into the map.
Inserted(current, fetched) ==
    SelectSeq(current, LAMBDA it : it.title # <<>>) \o Reverse(fetched)

\* The first position of list l that holds title t.
FirstPosition(l, t) == CHOOSE m \in Positions(l, t) : \A n \in Positions(l, t) : m <= n

C18_EmptyTitleAsymmetry ==
    [][\A p \in Procs : Merges(p) =>
         LET fetchedEmpty == Positions(fetchedTvPrograms[p], Str_empty)
             entries == Positions(newValues'[p], Str_empty)
         IN /\ \A k \in entries :
                  \A i \in 1..Len(currentTvPrograms[p]) :
                     newValues'[p][k] # currentTvPrograms[p][i]
            /\ IF fetchedEmpty = {}
                 THEN entries = {}
                 ELSE /\ Cardinality(entries) = 1
                      /\ \A k \in entries :
                            newValues'[p][k] =
                               fetchedTvPrograms[p][FirstPosition(fetchedTvPrograms[p], Str_empty)]]_vars

\* A row of empty title marked recorded merged with a fetched program of
\* empty title: the one entry is the fetched program, not recorded.
C18_Witness ==
    \E p \in Procs :
        /\ pc[p] = "clear"
        /\ \E i \in 1..Len(currentTvPrograms[p]) :
              /\ currentTvPrograms[p][i].title = Str_empty
              /\ currentTvPrograms[p][i].recorded = JsTrue
        /\ Len(fetchedTvPrograms[p]) = 1
        /\ fetchedTvPrograms[p][1].title = Str_empty
        /\ newValues[p] = <<fetchedTvPrograms[p][1]>>
        /\ newValues[p][1].recorded = JsFalse

\* C19: in a call of fetchTvPrograms the first request carries offset 0 and
\* every later one the sum of the record counts of the pages consumed
\* before it; the offsets of successive requests strictly increase, so no
\* offset is requested twice.
C19_OffsetsAdvance ==
    \A p \in Procs :
        /\ Len(responses[p]) = Len(requests[p])
        /\ \A n \in 1..Len(requests[p]) :
              /\ n = 1 => requests[p][n] = 0
              /\ requests[p][n] =
                    ConsumedCount(SubSeq(requests[p], 1, n - 1), SubSeq(responses[p], 1, n - 1))
              /\ \A m \in 1..(n - 1) : requests[p][m] < requests[p][n]

\* A call whose first page held two records and whose second request
\* carried offset 2.
C19_Witness ==
    \E p \in Procs :
        /\ requests[p] = <<0, 2>>
        /\ Len(responses[p][1].value) = 2

\* The stored rows are such that their normalized titles are not empty and
\* differ from one another.
DistinctTitles(rows) ==
    \A i \in 2..Len(rows) :
        /\ normalizeTitle(rows[i].title) # <<>>
        /\ \A j \in 2..Len(rows) :
              normalizeTitle(rows[i].title) = normalizeTitle(rows[j].title) => i = j

\* C20, as claimed: a run that completes, begun with stored rows whose
\* normalized titles are not empty and pairwise distinct, leaves every row
\* that was stored with recorded = true in the sheet, under its (normalized)
\* title and with recorded = true, whatever the fetch returned; so it is
\* after every run of a sequence, each beginning with what the last left.
C20_RecordedSurvives ==
    \A p \in Procs :
        pc[p] = "release" /\ ~threw[p] /\ DistinctTitles(sheetAtStart) =>
            \A i \in 2..Len(sheetAtStart) :
                sheetAtStart[i].recorded = JsTrue =>
                    \E k \in 2..Len(sheet) :
                        /\ sheet[k].title = normalizeTitle(sheetAtStart[i].title)
                        /\ sheet[k].recorded = JsTrue

====
